---- MODULE Spec2Model ----
(***************************************************************************)
(* command_organiser: a store of shell commands (storage manager over one  *)
(* SQLite table), the command service that derives the executable of a     *)
(* command text, and the terminal session that groups the stored commands  *)
(* into tabs and moves a selection through them.                           *)
(*                                                                         *)
(* Texts (command, executable) are sequences of one-character strings, so  *)
(* that splitting a text is computed and not assumed.  Rust's Option<T> is *)
(* a sequence of length at most one: <<>> is None and <<x>> is Some(x).    *)
(***************************************************************************)
EXTENDS Integers, Sequences, FiniteSets, TLC

\* Longest command text handed to the command service.
MaxLen == 2

\* Most rows of a commands.db file that a terminal session starts on.
MaxRows == 5

\* Most calls of TabState::previous followed below usize::MAX once the tab
\* index has wrapped.
MaxWrapped == 2

\* Most records of the file a bulk import reads.
MaxRecords == 3

----------------------------------------------------------------------------
(* Option<T> *)

None == <<>>

Some(x) == <<x>>

is_some(o) == Len(o) = 1

unwrap_val(o) == o[1]

----------------------------------------------------------------------------
(* Texts *)

SPACE == " "

TAB == "\t"

\* Characters a command text is written with: a letter, the space the
\* service splits on, and one whitespace character that is not a space.
Alphabet == {"l", SPACE, TAB}

RECURSIVE TextsOfLen(_)
TextsOfLen(n) ==
    IF n = 0 THEN {<<>>}
    ELSE {Append(t, c) : t \in TextsOfLen(n - 1), c \in Alphabet}

Texts == UNION {TextsOfLen(n) : n \in 0..MaxLen}

Aliases == {"a1", "a2"}

Descriptions == {None, Some("d")}

\* str::split(' '): the pieces between single spaces, empty pieces kept;
\* a text without a space (the empty text too) is one piece.
RECURSIVE split(_, _)
split(s, sep) ==
    IF \A i \in 1..Len(s) : s[i] # sep
    THEN <<s>>
    ELSE LET k == CHOOSE i \in 1..Len(s) :
                      s[i] = sep /\ \A j \in 1..(i - 1) : s[j] # sep
         IN  <<SubSeq(s, 1, k - 1)>> \o split(SubSeq(s, k + 1, Len(s)), sep)

\* slice::first
first(v) == IF Len(v) = 0 THEN None ELSE Some(v[1])

----------------------------------------------------------------------------
(* Command entity *)

Command_new(executable, command, alias, description) ==
    [alias |-> alias, executable |-> executable,
     command |-> command, description |-> description]

----------------------------------------------------------------------------
(* State *)

VARIABLES
    db,         \* rows of the commands table, in scan (rowid) order
    exists,     \* the database file, with its commands table, exists
    ret,        \* what the last command service call returned
    was,        \* the rows of the table when that call was made
    live,       \* the commands whose insert succeeded, not deleted since
    pc,         \* position of the terminal session
    raw,        \* the terminal is in raw mode
    alt,        \* the terminal shows the alternate screen
    titles,     \* App.tabs.titles
    index,      \* App.tabs.index
    items,      \* App.commands.items: executable -> commands
    selected,   \* App.commands.state.selected(): Option<usize>
    key,        \* the key event the loop is handling, "none" between events
    before,     \* tab index and selection when that event was read
    shown,      \* the command the description pane was last drawn with
    clipboard,  \* clipboard contents: Option<text>
    inputs,     \* the command texts the service's caller works with
    file,       \* the records of the file a bulk import reads
    pos         \* how many of them the import has attempted

storeVars == <<db, exists, ret, was, live>>

termVars == <<pc, raw, alt>>

appVars == <<titles, index, items, selected>>

viewVars == <<key, before, shown, clipboard, inputs, file, pos>>

vars == <<db, exists, ret, was, live, pc, raw, alt, titles, index, items,
          selected, key, before, shown, clipboard, inputs, file, pos>>

----------------------------------------------------------------------------
(* Storage manager: one table, commands(command, executable, alias,       *)
(* description), each of command, executable and alias UNIQUE.            *)

\* The UNIQUE columns of the table db_setup creates.
\* The table with alias TEXT and no UNIQUE on it.
UniqueColumns_alias_shared == {"command", "executable"}

\* The table with executable TEXT and no UNIQUE on it.
UniqueColumns_executable_shared == {"command", "alias"}

UniqueColumns == {"command", "executable", "alias"}

\* The INSERT is refused when a stored row agrees with the new one on a
\* UNIQUE column.
ConstraintViolated(rows, command) ==
    \E i \in 1..Len(rows) : \E col \in UniqueColumns :
        rows[i][col] = command[col]

\* db_setup that creates the table anew on every call.
db_setup_recreates(file_exists, rows) == <<>>

\* db_setup: the file is created when there is none, and the table only
\* IF NOT EXISTS: the rows of a file that exists stay as they are.
db_setup(file_exists, rows) == IF file_exists THEN rows ELSE <<>>

\* INSERT OR REPLACE: the rows in the way of the new one are replaced.
Storage_insert_or_replace(rows, command) ==
    [ok |-> TRUE,
     rows |-> Append(SelectSeq(rows, LAMBDA r :
                                  \A col \in UniqueColumns :
                                      r[col] # command[col]),
                     command)]

\* Result<(), CommandStorageError> with the table after the statement.
Storage_insert_command(rows, command) ==
    IF ConstraintViolated(rows, command)
    THEN [ok |-> FALSE, rows |-> rows]
    ELSE [ok |-> TRUE, rows |-> Append(rows, command)]

\* SELECT * FROM commands LIMIT 1
Storage_get_first_command(rows) ==
    IF rows = <<>> THEN <<>> ELSE <<Head(rows)>>

\* SELECT * FROM commands
Storage_get_all_commands(rows) == rows

\* SELECT * FROM commands where command=?, fetch_one: the first matching
\* row, RowNotFound (here None) when there is none.
Storage_get_command(rows, command) ==
    IF \E i \in 1..Len(rows) : rows[i].command = command.command
    THEN Some(rows[CHOOSE i \in 1..Len(rows) :
                       /\ rows[i].command = command.command
                       /\ \A j \in 1..(i - 1) :
                              rows[j].command # command.command])
    ELSE None

\* DELETE FROM commands WHERE command=? AND alias=?
Storage_delete_command_and_alias(rows, command) ==
    SelectSeq(rows, LAMBDA r : ~(/\ r.command = command.command
                                 /\ r.alias = command.alias))

\* DELETE FROM commands WHERE executable=?
Storage_delete_executable(rows, command) ==
    SelectSeq(rows, LAMBDA r : r.executable # command.executable)

\* DELETE FROM commands WHERE command=?: always Ok(()), whatever matched.
RECURSIVE Storage_delete_command(_, _)
Storage_delete_command(rows, command) ==
    IF rows = <<>> THEN <<>>
    ELSE IF Head(rows).command = command.command
         THEN Storage_delete_command(Tail(rows), command)
         ELSE <<Head(rows)>> \o Storage_delete_command(Tail(rows), command)

----------------------------------------------------------------------------
(* Command service *)

\* command.split(' ').collect::<Vec<&str>>().first()
\*     .ok_or(CommandServiceError::NoExecutable)
derive_executable(command) == first(split(command, SPACE))

\* A call of the service: its arguments command and alias, the Ok or the
\* error it returned, and the value inside the Ok.
Returned(op, command, alias, status, value) ==
    [op |-> op, command |-> command, alias |-> alias, status |-> status,
     value |-> value]

\* CommandService::new: CommandStorageManager::new, which is db_setup.
Service_new ==
    /\ db' = db_setup(exists, db)
    /\ exists' = TRUE
    /\ ret' = Returned("new", <<>>, "", "Ok", None)

Service_insert_command(command, alias, description) ==
    LET executable == derive_executable(command) IN
    IF ~is_some(executable)
    THEN /\ ret' = Returned("insert", command, alias, "NoExecutable", None)
         /\ db' = db
    ELSE LET c == Command_new(unwrap_val(executable), command, alias,
                              description)
             r == Storage_insert_command(db, c)
         IN  /\ db' = r.rows
             /\ ret' = IF r.ok
                       THEN Returned("insert", command, alias, "Ok", Some(c))
                       ELSE Returned("insert", command, alias,
                                     "StorageManagerInsertCommand", None)

Service_get_all_commands ==
    /\ ret' = Returned("get_all", <<>>, "", "Ok",
                       Storage_get_all_commands(db))
    /\ db' = db

Service_get_command(command, alias) ==
    LET executable == derive_executable(command) IN
    /\ db' = db
    /\ IF ~is_some(executable)
       THEN ret' = Returned("get", command, alias, "NoExecutable", None)
       ELSE LET c == Command_new(unwrap_val(executable), command, alias, None)
                found == Storage_get_command(db, c)
            IN  ret' = IF is_some(found)
                       THEN Returned("get", command, alias, "Ok", found)
                       ELSE Returned("get", command, alias,
                                     "StorageManagerGetCommand", None)

Service_delete_command(command, alias, description) ==
    LET executable == derive_executable(command) IN
    IF ~is_some(executable)
    THEN /\ ret' = Returned("delete", command, alias, "NoExecutable", None)
         /\ db' = db
    ELSE LET c == Command_new(unwrap_val(executable), command, alias,
                              description)
         IN  /\ db' = Storage_delete_command(db, c)
             /\ ret' = Returned("delete", command, alias, "Ok", Some(c))

NoCall == Returned("none", <<>>, "", "Ok", None)

----------------------------------------------------------------------------
(* usize arithmetic.  A usize above what the checker's integers hold is    *)
(* written as its residue modulo 2^64 nearest to zero: -1 is usize::MAX.   *)

USIZE_MAX == -1

\* a - b on usize: with overflow checks (debug build) an underflow panics,
\* without them (release build) it wraps.  None is the panic.
usize_sub(a, b) == IF a >= b THEN {Some(a - b)} ELSE {None, Some(a - b)}

\* a >= b on usize
usize_ge(a, b) == IF (a < 0) = (b < 0) THEN a >= b ELSE a < 0

\* slice::get: the element at a zero-based position, None out of range.
get(v, i) == IF 0 <= i /\ i < Len(v) THEN Some(v[i + 1]) ELSE None

----------------------------------------------------------------------------
(* Navigation state: TabState, StatefulList, App *)

\* StatefulList::selected_index
selected_index(sel) == IF is_some(sel) THEN unwrap_val(sel) ELSE 0

\* TabState::next that stays on the last tab instead of wrapping.
TabState_next_no_wrap(t, i) ==
    IF Len(t) = 0 THEN None
    ELSE IF i + 1 >= Len(t) THEN Some(i) ELSE Some(i + 1)

\* TabState::next.  index' is None when the call panics (remainder with a
\* divisor of zero).
TabState_next(t, i) ==
    IF Len(t) = 0 THEN None ELSE Some((i + 1) % Len(t))

\* TabState::previous: the set of outcomes over the builds; None is the
\* panic of the checked subtraction len() - 1.
TabState_previous(t, i) ==
    IF i # 0 THEN {Some(i - 1)} ELSE usize_sub(Len(t), 1)

\* StatefulList::next that stays on the last item instead of wrapping.
StatefulList_next_no_wrap(its, sel, tab) ==
    IF is_some(sel)
    THEN IF tab \notin DOMAIN its
         THEN {None}
         ELSE {IF ~is_some(m) THEN None
               ELSE IF usize_ge(unwrap_val(sel), unwrap_val(m))
                    THEN sel
                    ELSE Some(unwrap_val(sel) + 1)
               : m \in usize_sub(Len(its[tab]), 1)}
    ELSE {Some(0)}

\* StatefulList::next that goes on past the last item.
StatefulList_next_past_end(its, sel, tab) ==
    IF is_some(sel) THEN {Some(unwrap_val(sel) + 1)} ELSE {Some(0)}

\* StatefulList::next for the tab named tab: the outcomes, None the panic.
StatefulList_next(its, sel, tab) ==
    IF is_some(sel)
    THEN IF tab \notin DOMAIN its
         THEN {None}
         ELSE {IF ~is_some(m) THEN None
               ELSE IF usize_ge(unwrap_val(sel), unwrap_val(m))
                    THEN Some(0)
                    ELSE Some(unwrap_val(sel) + 1)
               : m \in usize_sub(Len(its[tab]), 1)}
    ELSE {Some(0)}

\* StatefulList::previous that takes no selection for a selection of the
\* first item, and so goes to the last item from it.
StatefulList_previous_from_last(its, sel, tab) ==
    IF tab \notin DOMAIN its
    THEN {None}
    ELSE IF selected_index(sel) = 0
         THEN usize_sub(Len(its[tab]), 1)
         ELSE {Some(unwrap_val(sel) - 1)}

\* StatefulList::previous
StatefulList_previous(its, sel, tab) ==
    IF is_some(sel)
    THEN IF tab \notin DOMAIN its
         THEN {None}
         ELSE IF unwrap_val(sel) = 0
              THEN usize_sub(Len(its[tab]), 1)
              ELSE {Some(unwrap_val(sel) - 1)}
    ELSE {Some(0)}

\* The grouping loop with each command put at the front of its entry.
RECURSIVE group_commands_prepend(_, _)
group_commands_prepend(commands, map) ==
    IF commands = <<>> THEN map
    ELSE LET c == Head(commands)
             e == c.executable
             entry == IF e \in DOMAIN map THEN map[e] ELSE <<>>
         IN  group_commands_prepend(Tail(commands),
                 [k \in DOMAIN map \cup {e} |->
                     IF k = e THEN <<c>> \o entry ELSE map[k]])

\* The grouping loop of App::new: each command is pushed onto the entry of
\* its executable, made empty when the executable is new.
RECURSIVE group_commands(_, _)
group_commands(commands, map) ==
    IF commands = <<>> THEN map
    ELSE LET c == Head(commands)
             e == c.executable
             entry == IF e \in DOMAIN map THEN map[e] ELSE <<>>
         IN  group_commands(Tail(commands),
                 [k \in DOMAIN map \cup {e} |->
                     IF k = e THEN Append(entry, c) ELSE map[k]])

EmptyMap == [k \in {} |-> <<>>]

\* HashMap::keys: every key once, in an order the map's hasher decides.
keys(map) ==
    {o \in [1..Cardinality(DOMAIN map) -> DOMAIN map] :
        \A i, j \in DOMAIN o : i # j => o[i] # o[j]}

\* App::get_selected_executable without its unwrap
selected_executable(t, i) == get(t, i)

\* App::get_selected_command: None is a panic of one of its unwraps or of
\* the map lookup.
get_selected_command(t, i, its, sel) ==
    LET executable == selected_executable(t, i) IN
    IF ~is_some(executable) THEN None
    ELSE IF unwrap_val(executable) \notin DOMAIN its THEN None
    ELSE get(its[unwrap_val(executable)], selected_index(sel))

----------------------------------------------------------------------------
(* The commands.db a terminal session finds.  db_setup opens the file as  *)
(* it is and creates the table only IF NOT EXISTS, so the rows are those   *)
(* of whatever wrote the file: here any choice and order of the commands   *)
(* of tests::populate_db, several of which share the executable ls.        *)

GIT == <<"g", "i", "t">>

SSH == <<"s", "s", "h">>

LS == <<"l", "s">>

VERSION == <<"v", "e", "r", "s", "i", "o", "n">>

SampleCommands ==
    << Command_new(GIT, GIT \o <<" ", "p", "u", "l", "l">>, "git_pull",
                   Some("Just a git pull")),
       Command_new(SSH, SSH \o <<" ", "-", "-">> \o VERSION, "ssh_version",
                   Some("Just a ssh version")),
       Command_new(LS, LS \o <<" ", ".">>, "ls_current",
                   Some("Just a ls")),
       Command_new(LS, LS \o <<" ", "-", "a">>, "ls_all",
                   Some("Just a ls all")),
       Command_new(LS, LS \o <<" ", ".", ".">>, "ls_previous",
                   Some("Just a ls previous")),
       Command_new(LS, LS \o <<" ", "-", "-">> \o VERSION, "ls_version",
                   Some("Just a ls version")) >>

DbFiles ==
    LET picks == UNION {[1..n -> 1..Len(SampleCommands)] : n \in 0..MaxRows}
    IN  {[i \in DOMAIN p |-> SampleCommands[p[i]]] :
            p \in {q \in picks : \A i, j \in DOMAIN q : i # j => q[i] # q[j]}}

----------------------------------------------------------------------------
(* The terminal session: run_terminal and run_app *)

NoEvent == [index |-> 0, selected |-> None]

\* main has reached run_terminal; the terminal is as the shell left it.
\* commands.db holds some rows, or no row, or is not there yet.
Init ==
    /\ db \in DbFiles
    /\ exists \in (IF db = <<>> THEN BOOLEAN ELSE {TRUE})
    /\ ret = NoCall
    /\ was = <<>>
    /\ live = {}
    /\ pc = "start"
    /\ raw = FALSE
    /\ alt = FALSE
    /\ titles = <<>>
    /\ index = 0
    /\ items = EmptyMap
    /\ selected = None
    /\ key = "none"
    /\ before = NoEvent
    /\ shown = None
    /\ clipboard = None
    /\ inputs = {}
    /\ file = <<>>
    /\ pos = 0

\* run_terminal, setup: enable_raw_mode, EnterAlternateScreen.
EnterTerminal ==
    /\ pc = "start"
    /\ raw' = TRUE
    /\ alt' = TRUE
    /\ pc' = "new"
    /\ UNCHANGED <<storeVars, appVars, viewVars>>

\* App::new: all commands of the store, grouped by executable; the tab
\* titles are the keys of the grouping in the map's iteration order.
AppNew ==
    /\ pc = "new"
    /\ db' = db_setup(exists, db)
    /\ exists' = TRUE
    /\ LET commands == group_commands(Storage_get_all_commands(db'), EmptyMap)
       IN  /\ items' = commands
           /\ titles' \in keys(commands)
    /\ index' = 0
    /\ selected' = None
    /\ pc' = "draw"
    /\ UNCHANGED <<ret, was, live, raw, alt, viewVars>>

\* App::new when CommandService::new fails (the database cannot be created
\* or opened): the ? of run_terminal returns the error at once, past the
\* code that restores the terminal.
AppNewFails ==
    /\ pc = "new"
    /\ pc' = "failed"
    /\ UNCHANGED <<storeVars, raw, alt, appVars, viewVars>>

\* terminal.draw(ui): draw_alias_pane unwraps the executable at the tab
\* index (executables() iterates the same unchanged map as titles did) and
\* draw_description_and_command_pane shows get_selected_command().
Draw ==
    /\ pc = "draw"
    /\ LET command == get_selected_command(titles, index, items, selected)
       IN  IF is_some(command)
           THEN /\ shown' = command
                /\ pc' = "read"
           ELSE /\ shown' = shown
                /\ pc' = "panic"
    /\ key' = "none"
    /\ before' = NoEvent
    /\ UNCHANGED <<storeVars, raw, alt, appVars, clipboard, inputs, file, pos>>

\* terminal.draw(ui)? when the backend fails to write: run_app returns the
\* io::Error, and run_terminal goes on to restore the terminal.
DrawFails ==
    /\ pc = "draw"
    /\ pc' = "restore"
    /\ UNCHANGED <<storeVars, raw, alt, appVars, viewVars>>

\* event::read()? when reading the event fails: run_app returns the
\* io::Error, and run_terminal goes on to restore the terminal.
ReadFails ==
    /\ pc = "read"
    /\ pc' = "restore"
    /\ UNCHANGED <<storeVars, raw, alt, appVars, viewVars>>

\* KeyCode::Char('q')
KeyQuit ==
    /\ pc = "read"
    /\ key' = "q"
    /\ before' = [index |-> index, selected |-> selected]
    /\ pc' = "restore"
    /\ UNCHANGED <<storeVars, raw, alt, appVars, shown, clipboard, inputs,
                   file, pos>>

\* KeyCode::Right without the new list state: the selection is kept.
KeyRightKeepsSelection ==
    /\ pc = "read"
    /\ key' = "Right"
    /\ before' = [index |-> index, selected |-> selected]
    /\ LET i == TabState_next(titles, index)
       IN  IF is_some(i)
           THEN /\ index' = unwrap_val(i)
                /\ pc' = "draw"
           ELSE /\ pc' = "panic"
                /\ index' = index
    /\ UNCHANGED <<storeVars, raw, alt, titles, items, selected, shown,
                   clipboard, inputs, file, pos>>

\* KeyCode::Right: tabs.next(), then the list state is made anew.
KeyRight ==
    /\ pc = "read"
    /\ key' = "Right"
    /\ before' = [index |-> index, selected |-> selected]
    /\ LET i == TabState_next(titles, index)
       IN  IF is_some(i)
           THEN /\ index' = unwrap_val(i)
                /\ selected' = None
                /\ pc' = "draw"
           ELSE /\ pc' = "panic"
                /\ UNCHANGED <<index, selected>>
    /\ UNCHANGED <<storeVars, raw, alt, titles, items, shown, clipboard,
                   inputs, file, pos>>

\* KeyCode::Left: tabs.previous(), then the list state is made anew.
KeyLeft ==
    /\ pc = "read"
    /\ key' = "Left"
    /\ before' = [index |-> index, selected |-> selected]
    /\ \E i \in TabState_previous(titles, index) :
           IF is_some(i)
           THEN /\ index' = unwrap_val(i)
                /\ selected' = None
                /\ pc' = "draw"
           ELSE /\ pc' = "panic"
                /\ UNCHANGED <<index, selected>>
    /\ UNCHANGED <<storeVars, raw, alt, titles, items, shown, clipboard,
                   inputs, file, pos>>

\* KeyCode::Down: commands.next(titles.get(index).unwrap())
KeyDown ==
    /\ pc = "read"
    /\ key' = "Down"
    /\ before' = [index |-> index, selected |-> selected]
    /\ LET tab == selected_executable(titles, index)
       IN  IF ~is_some(tab)
           THEN /\ pc' = "panic"
                /\ selected' = selected
           ELSE \E i \in StatefulList_next(items, selected, unwrap_val(tab)) :
                    IF is_some(i)
                    THEN /\ selected' = i
                         /\ pc' = "draw"
                    ELSE /\ pc' = "panic"
                         /\ selected' = selected
    /\ UNCHANGED <<storeVars, raw, alt, titles, index, items, shown,
                   clipboard, inputs, file, pos>>

\* KeyCode::Up: commands.previous(titles.get(index).unwrap())
KeyUp ==
    /\ pc = "read"
    /\ key' = "Up"
    /\ before' = [index |-> index, selected |-> selected]
    /\ LET tab == selected_executable(titles, index)
       IN  IF ~is_some(tab)
           THEN /\ pc' = "panic"
                /\ selected' = selected
           ELSE \E i \in StatefulList_previous(items, selected,
                                               unwrap_val(tab)) :
                    IF is_some(i)
                    THEN /\ selected' = i
                         /\ pc' = "draw"
                    ELSE /\ pc' = "panic"
                         /\ selected' = selected
    /\ UNCHANGED <<storeVars, raw, alt, titles, index, items, shown,
                   clipboard, inputs, file, pos>>

\* KeyCode::Enter: save_command_to_clipboard, then return Ok(()) whether
\* the copy worked or not.  The clipboard may refuse the context or the
\* contents (set_contents' result is dropped), leaving it as it was.
KeyEnter ==
    /\ pc = "read"
    /\ key' = "Enter"
    /\ before' = [index |-> index, selected |-> selected]
    /\ LET command == get_selected_command(titles, index, items, selected)
       IN  IF is_some(command)
           THEN /\ clipboard' \in {Some(unwrap_val(command).command),
                                    clipboard}
                /\ pc' = "restore"
           ELSE /\ clipboard' = clipboard
                /\ pc' = "panic"
    /\ UNCHANGED <<storeVars, raw, alt, appVars, shown, inputs, file, pos>>

\* Any other key, and any event that is not a key: the loop goes round.
KeyOther ==
    /\ pc = "read"
    /\ key' = "other"
    /\ before' = [index |-> index, selected |-> selected]
    /\ pc' = "draw"
    /\ UNCHANGED <<storeVars, raw, alt, appVars, shown, clipboard, inputs,
                   file, pos>>

\* run_terminal, after run_app returned: disable_raw_mode,
\* LeaveAlternateScreen, show_cursor.
RestoreTerminal ==
    /\ pc = "restore"
    /\ raw' = FALSE
    /\ alt' = FALSE
    /\ pc' = "done"
    /\ UNCHANGED <<storeVars, appVars, viewVars>>

Next ==
    \/ EnterTerminal
    \/ AppNew
    \/ AppNewFails
    \/ Draw
    \/ DrawFails
    \/ ReadFails
    \/ KeyQuit
    \/ KeyRight
    \/ KeyLeft
    \/ KeyDown
    \/ KeyUp
    \/ KeyEnter
    \/ KeyOther
    \/ RestoreTerminal

Spec == Init /\ [][Next]_vars

----------------------------------------------------------------------------
(* The command service made on no file, as its tests make it, and then    *)
(* any sequence of CommandService::new, insert_command, get_command,      *)
(* delete_command and                                                     *)
(* get_all_commands with any alias and description, on one or two command *)
(* texts, which are any texts of up to MaxLen characters.                 *)

InitService ==
    /\ db = <<>>
    /\ exists = FALSE
    /\ ret = NoCall
    /\ was = <<>>
    /\ live = {}
    /\ pc = "start"
    /\ raw = FALSE
    /\ alt = FALSE
    /\ titles = <<>>
    /\ index = 0
    /\ items = EmptyMap
    /\ selected = None
    /\ key = "none"
    /\ before = NoEvent
    /\ shown = None
    /\ clipboard = None
    /\ inputs \in {{a, b} : a \in Texts, b \in Texts}
    /\ file = <<>>
    /\ pos = 0

\* The caller's side of a call: the rows before it, and the commands that
\* are to be in the store after it.
Called(inserted, deleted) ==
    /\ was' = db
    /\ live' = {c \in live : c.command \notin deleted} \cup inserted
    /\ exists' = exists
    /\ UNCHANGED <<termVars, appVars, viewVars>>

\* CommandService::new, on no file at first and on the store at any time.
NewService ==
    /\ Service_new
    /\ was' = db
    /\ live' = live
    /\ UNCHANGED <<termVars, appVars, viewVars>>

InsertCommand ==
    /\ exists
    /\ \E command \in inputs, alias \in Aliases, description \in Descriptions :
           Service_insert_command(command, alias, description)
    /\ Called(IF ret'.status = "Ok" THEN {unwrap_val(ret'.value)} ELSE {},
              {})

GetCommand ==
    /\ exists
    /\ \E command \in inputs, alias \in Aliases :
           Service_get_command(command, alias)
    /\ Called({}, {})

DeleteCommand ==
    /\ exists
    /\ \E command \in inputs, alias \in Aliases, description \in Descriptions :
           Service_delete_command(command, alias, description)
    /\ Called({}, IF ret'.status = "Ok" THEN {ret'.command} ELSE {})

GetAllCommands ==
    /\ exists
    /\ Service_get_all_commands
    /\ Called({}, {})

NextService ==
    \/ NewService
    \/ InsertCommand
    \/ GetCommand
    \/ DeleteCommand
    \/ GetAllCommands

SpecService == InitService /\ [][NextService]_vars

----------------------------------------------------------------------------
(* TabState called directly on the tabs App::new builds from any store,   *)
(* the empty one included.                                                *)

InitTabState ==
    /\ db \in DbFiles
    /\ exists = TRUE
    /\ ret = NoCall
    /\ was = <<>>
    /\ live = {}
    /\ pc = "tabs"
    /\ raw = FALSE
    /\ alt = FALSE
    /\ items = group_commands(Storage_get_all_commands(db), EmptyMap)
    /\ titles \in keys(items)
    /\ index = 0
    /\ selected = None
    /\ key = "none"
    /\ before = NoEvent
    /\ shown = None
    /\ clipboard = None
    /\ inputs = {}
    /\ file = <<>>
    /\ pos = 0

\* tabs.next()
TabsNext ==
    /\ pc = "tabs"
    /\ key' = "next"
    /\ before' = [index |-> index, selected |-> selected]
    /\ LET i == TabState_next(titles, index)
       IN  IF is_some(i)
           THEN /\ index' = unwrap_val(i)
                /\ pc' = "tabs"
           ELSE /\ index' = index
                /\ pc' = "panic"
    /\ UNCHANGED <<storeVars, raw, alt, titles, items, selected, shown,
                   clipboard, inputs, file, pos>>

\* tabs.previous()
TabsPrevious ==
    /\ pc = "tabs"
    /\ index > USIZE_MAX - MaxWrapped
    /\ key' = "previous"
    /\ before' = [index |-> index, selected |-> selected]
    /\ \E i \in TabState_previous(titles, index) :
           IF is_some(i)
           THEN /\ index' = unwrap_val(i)
                /\ pc' = "tabs"
           ELSE /\ index' = index
                /\ pc' = "panic"
    /\ UNCHANGED <<storeVars, raw, alt, titles, items, selected, shown,
                   clipboard, inputs, file, pos>>

NextTabState ==
    \/ TabsNext
    \/ TabsPrevious

SpecTabState == InitTabState /\ [][NextTabState]_vars

----------------------------------------------------------------------------
(* One command text taken through the command service, as               *)
(* tests::test_delete_command begins: from the start of the service       *)
(* (InitService), on a store that any inserts have filled, the text is    *)
(* inserted, deleted, read, and inserted again, each time with any alias  *)
(* and description.                                                       *)

FlowNew ==
    /\ pc = "start"
    /\ Service_new
    /\ was' = db
    /\ live' = live
    /\ pc' = "made"
    /\ UNCHANGED <<raw, alt, appVars, viewVars>>

\* The caller's side of a call of the flow, which goes on at the step to.
FlowCalled(inserted, deleted, to) ==
    /\ was' = db
    /\ live' = {c \in live : c.command \notin deleted} \cup inserted
    /\ exists' = exists
    /\ pc' \in to
    /\ UNCHANGED <<raw, alt, appVars, viewVars>>

\* An insert that fills the store, or, when it succeeds, the insert of the
\* text that the flow goes on with.
FlowInsert ==
    /\ pc = "made"
    /\ \E command \in inputs, alias \in Aliases, description \in Descriptions :
           Service_insert_command(command, alias, description)
    /\ FlowCalled(IF ret'.status = "Ok" THEN {unwrap_val(ret'.value)} ELSE {},
                  {},
                  IF ret'.status = "Ok" THEN {"made", "inserted"}
                  ELSE {"made"})

FlowDelete ==
    /\ pc = "inserted"
    /\ \E alias \in Aliases, description \in Descriptions :
           Service_delete_command(ret.command, alias, description)
    /\ FlowCalled({}, IF ret'.status = "Ok" THEN {ret'.command} ELSE {},
                  {"deleted"})

FlowGet ==
    /\ pc = "deleted"
    /\ \E alias \in Aliases : Service_get_command(ret.command, alias)
    /\ FlowCalled({}, {}, {"got"})

FlowInsertAgain ==
    /\ pc \in {"deleted", "got"}
    /\ \E alias \in Aliases, description \in Descriptions :
           Service_insert_command(ret.command, alias, description)
    /\ FlowCalled(IF ret'.status = "Ok" THEN {unwrap_val(ret'.value)} ELSE {},
                  {}, {"again"})

NextFlow ==
    \/ FlowNew
    \/ FlowInsert
    \/ FlowDelete
    \/ FlowGet
    \/ FlowInsertAgain

SpecFlow == InitService /\ [][NextFlow]_vars

----------------------------------------------------------------------------
(* The bulk import: cli::populate_db called with --file, on no database    *)
(* file or on an empty one, once read_commands_from_file has returned the  *)
(* records of the file.                                                    *)

\* The command texts of the records: two with one executable, and one with
\* another.
FileTexts == {<<"l">>, <<"l", SPACE>>, <<TAB>>}

\* The records a file can hold.  A record has an executable of its own,
\* which the import does not read.
FileRecords ==
    {Command_new(<<"l">>, command, alias, description) :
        command \in FileTexts, alias \in Aliases, description \in Descriptions}

Files == UNION {[1..n -> FileRecords] : n \in 0..MaxRecords}

InitImport ==
    /\ db = <<>>
    /\ exists \in BOOLEAN
    /\ ret = NoCall
    /\ was = <<>>
    /\ live = {}
    /\ pc = "populate"
    /\ raw = FALSE
    /\ alt = FALSE
    /\ titles = <<>>
    /\ index = 0
    /\ items = EmptyMap
    /\ selected = None
    /\ key = "none"
    /\ before = NoEvent
    /\ shown = None
    /\ clipboard = None
    /\ inputs = {}
    /\ file \in Files
    /\ pos = 0

\* populate_db down to the loop: CommandService::new(&args.db_file)
ImportNew ==
    /\ pc = "populate"
    /\ Service_new
    /\ was' = db
    /\ live' = live
    /\ pc' = "for"
    /\ UNCHANGED <<raw, alt, appVars, key, before, shown, clipboard, inputs,
                   file, pos>>

\* One turn of the loop that returns the error of the insert with ?.
ImportRecord_aborts ==
    /\ pc = "for"
    /\ pos < Len(file)
    /\ LET command == file[pos + 1]
       IN  Service_insert_command(command.command, command.alias,
                                  command.description)
    /\ pos' = pos + 1
    /\ was' = db
    /\ live' = live \cup (IF ret'.status = "Ok"
                          THEN {unwrap_val(ret'.value)} ELSE {})
    /\ pc' = IF ret'.status = "Ok" THEN "for" ELSE "returned"
    /\ UNCHANGED <<exists, raw, alt, appVars, key, before, shown, clipboard,
                   inputs, file>>

\* One turn of the loop: the insert of the next record; its error is
\* logged with warn! and the loop goes on.
ImportRecord ==
    /\ pc = "for"
    /\ pos < Len(file)
    /\ LET command == file[pos + 1]
       IN  Service_insert_command(command.command, command.alias,
                                  command.description)
    /\ pos' = pos + 1
    /\ was' = db
    /\ live' = live \cup (IF ret'.status = "Ok"
                          THEN {unwrap_val(ret'.value)} ELSE {})
    /\ pc' = "for"
    /\ UNCHANGED <<exists, raw, alt, appVars, key, before, shown, clipboard,
                   inputs, file>>

\* The loop has taken every record: populate_db returns Ok(()).
ImportReturn ==
    /\ pc = "for"
    /\ pos = Len(file)
    /\ pc' = "returned"
    /\ UNCHANGED <<storeVars, raw, alt, appVars, viewVars>>

NextImport ==
    \/ ImportNew
    \/ ImportRecord
    \/ ImportReturn

SpecImport == InitImport /\ [][NextImport]_vars

----------------------------------------------------------------------------
(* Properties of the terminal session (Spec) *)

\* The list of the active tab, once the tab index names a tab.
ActiveList == items[titles[index + 1]]

\* A key has been handled and the loop has not drawn again yet.
Handled(k) == pc = "draw" /\ key = k

\* C1: after every tab change (the Right or the Left key) no item is
\* selected, whatever was selected when the key was read.
C1_TabChangeResetsSelection ==
    (key \in {"Right", "Left"} /\ pc # "panic") => selected = None

\* C1 happens: a tab change made from a selection below the first item (the
\* pane still shows that item's command) has left no item selected.
C1_Witness ==
    /\ Handled("Right")
    /\ index # before.index
    /\ is_some(before.selected)
    /\ unwrap_val(before.selected) >= 1
    /\ selected = None

\* C3 as claimed: a session started on a store holding no commands never
\* crashes, neither building the App nor drawing nor handling a key.
C3_EmptyStoreSessionNeverCrashes ==
    db = <<>> => pc # "panic"

\* C4 as claimed: while no item is selected, get_selected_command returns
\* no command (None stands for its failure).
C4_NoSelectionNoCommand ==
    (pc \in {"draw", "read"} /\ selected = None)
        => get_selected_command(titles, index, items, selected) = None

\* C5 as claimed: the Up key (previous item) pressed while no item is
\* selected selects the last item of the active tab's list.
C5_PreviousFromNoneSelectsLast ==
    (Handled("Up") /\ before.selected = None)
        => selected = Some(Len(ActiveList) - 1)

\* C5 amended: the Up key pressed while no item is selected selects index 0,
\* the first item of the active tab's list.
C5_PreviousFromNoneSelectsFirst ==
    (Handled("Up") /\ before.selected = None) => selected = Some(0)

\* C5 happens: tabs git (1 item) and ls (4 items), the ls tab reached by a
\* tab change, Up pressed with nothing selected, index 0 selected.
C5_Witness ==
    /\ Handled("Up")
    /\ before.selected = None
    /\ titles = <<GIT, LS>>
    /\ index = 1
    /\ Len(items[GIT]) = 1
    /\ Len(items[LS]) = 4
    /\ selected = Some(0)

\* n calls of StatefulList::next from a selection, over every build: the
\* selections they can end with, None for a panic on the way.
RECURSIVE next_item_times(_, _, _, _)
next_item_times(n, its, sel, tab) ==
    IF n = 0 THEN {Some(sel)}
    ELSE UNION {IF is_some(o) THEN next_item_times(n - 1, its, o, tab)
                ELSE {None}
                : o \in StatefulList_next(its, sel, tab)}

\* n calls of StatefulList::previous from a selection, over every build.
RECURSIVE previous_item_times(_, _, _, _)
previous_item_times(n, its, sel, tab) ==
    IF n = 0 THEN {Some(sel)}
    ELSE UNION {IF is_some(o) THEN previous_item_times(n - 1, its, o, tab)
                ELSE {None}
                : o \in StatefulList_previous(its, sel, tab)}

\* C6: with item i of the n items of the active tab selected, Down selects
\* (i + 1) mod n and Up selects (i - 1) mod n, and n calls of next, or of
\* previous, come back to i.
C6_ItemsCycle ==
    /\ (Handled("Down") /\ is_some(before.selected))
          => selected = Some((unwrap_val(before.selected) + 1)
                                % Len(ActiveList))
    /\ (Handled("Up") /\ is_some(before.selected))
          => selected = Some((unwrap_val(before.selected)
                                + Len(ActiveList) - 1) % Len(ActiveList))
    /\ (pc \in {"draw", "read"} /\ is_some(selected))
          => /\ next_item_times(Len(ActiveList), items, selected,
                                titles[index + 1]) = {Some(selected)}
             /\ previous_item_times(Len(ActiveList), items, selected,
                                    titles[index + 1]) = {Some(selected)}

\* C6 happens: Down pressed on the last of four items has selected item 0.
C6_Witness ==
    /\ Handled("Down")
    /\ Len(ActiveList) = 4
    /\ before.selected = Some(3)
    /\ selected = Some(0)

----------------------------------------------------------------------------
(* Properties of TabState (SpecTabState) *)

\* C2 as claimed: with no tabs, next and previous complete without a panic
\* and leave the tab index as it was.
C2_ZeroTabsNoOp ==
    Len(titles) = 0 => (pc # "panic" /\ index = 0)

\* n calls of TabState::next from tab i: the tab indexes they can end
\* with, None for a panic on the way.
RECURSIVE next_tab_times(_, _, _)
next_tab_times(n, t, i) ==
    IF n = 0 THEN {Some(i)}
    ELSE LET o == TabState_next(t, i)
         IN  IF is_some(o) THEN next_tab_times(n - 1, t, unwrap_val(o))
             ELSE {None}

\* n calls of TabState::previous from tab i, over every build.
RECURSIVE previous_tab_times(_, _, _)
previous_tab_times(n, t, i) ==
    IF n = 0 THEN {Some(i)}
    ELSE UNION {IF is_some(o) THEN previous_tab_times(n - 1, t, unwrap_val(o))
                ELSE {None}
                : o \in TabState_previous(t, i)}

\* C7: with n >= 1 tabs, next moves tab t to (t + 1) mod n and previous to
\* (t - 1) mod n; n calls of next, n calls of previous, and next followed
\* by previous all come back to t.
C7_TabsCycle ==
    Len(titles) >= 1 =>
        /\ pc = "tabs"
        /\ key = "next" => index = (before.index + 1) % Len(titles)
        /\ key = "previous"
              => index = (before.index + Len(titles) - 1) % Len(titles)
        /\ next_tab_times(Len(titles), titles, index) = {Some(index)}
        /\ previous_tab_times(Len(titles), titles, index) = {Some(index)}
        /\ UNION {IF is_some(t) THEN previous_tab_times(1, titles, unwrap_val(t))
                                ELSE {None}
                     : t \in next_tab_times(1, titles, index)} = {Some(index)}

\* C7 happens: next called on the last of three tabs has gone to tab 0.
C7_Witness ==
    /\ Len(titles) = 3
    /\ key = "next"
    /\ before.index = 2
    /\ index = 0

----------------------------------------------------------------------------
(* Properties of the command service (SpecService) *)

Whitespace == {SPACE, TAB}

\* The text holds a character that is not whitespace.
HasToken(s) == \E i \in 1..Len(s) : s[i] \notin Whitespace

\* The first whitespace-delimited token of a text that has one.
FirstToken(s) ==
    LET a == CHOOSE i \in 1..Len(s) :
                 /\ s[i] \notin Whitespace
                 /\ \A j \in 1..(i - 1) : s[j] \in Whitespace
        b == CHOOSE i \in a..Len(s) :
                 /\ \A j \in a..i : s[j] \notin Whitespace
                 /\ (i = Len(s) \/ s[i + 1] \in Whitespace)
    IN  SubSeq(s, a, b)

\* C8 as claimed: an insert is refused only when its command text or its
\* alias is already stored (a refused insert leaves the rows as they were),
\* and not because a stored command has the same executable.  Stated for
\* the texts that start with their first token.
C8_InsertOfNewTextAndAliasSucceeds ==
    (/\ ret.op = "insert"
     /\ ret.status # "Ok"
     /\ HasToken(ret.command)
     /\ derive_executable(ret.command) = Some(FirstToken(ret.command)))
        => \E i \in 1..Len(db) :
               db[i].command = ret.command \/ db[i].alias = ret.alias

\* C9 as claimed: the command an insert returns, and the record a get
\* returns, for a text that has a token, carry as executable the first
\* whitespace-delimited token of the text, which is not empty.
C9_ExecutableIsFirstToken ==
    (/\ ret.op \in {"insert", "get"}
     /\ ret.status = "Ok"
     /\ HasToken(ret.command))
        => /\ unwrap_val(ret.value).executable = FirstToken(ret.command)
           /\ unwrap_val(ret.value).executable # <<>>

\* C10 as claimed: insert, get and delete of the empty text fail with
\* NoExecutable, and no row with an empty executable is ever stored.
C10_EmptyTextIsNoExecutable ==
    /\ (ret.op \in {"insert", "get", "delete"} /\ ret.command = <<>>)
          => ret.status = "NoExecutable"
    /\ \A i \in 1..Len(db) : db[i].executable # <<>>

----------------------------------------------------------------------------
(* Properties of the store behind the command service (SpecService,        *)
(* SpecFlow, SpecImport) *)

\* The rows of a table that hold a command text.
RowsOf(rows, command) == {i \in 1..Len(rows) : rows[i].command = command}

\* C11: an insert of a command text that is already stored fails and
\* leaves the store as it was: the store holds exactly one row for the
\* text, the row of the insert that succeeded first.
C11_DuplicateCommandInsertFails ==
    (ret.op = "insert" /\ RowsOf(was, ret.command) # {})
        => /\ ret.status = "StorageManagerInsertCommand"
           /\ db = was
           /\ Cardinality(RowsOf(db, ret.command)) = 1
           /\ \A i \in RowsOf(db, ret.command) : db[i] \in live

\* C11 happens: a second insert of a stored text, under another alias and
\* with another description than the stored row has, has been refused.
C11_Witness ==
    /\ ret.op = "insert"
    /\ ret.status # "Ok"
    /\ \E i \in RowsOf(was, ret.command) :
           /\ was[i].alias # ret.alias
           /\ was[i].description = Some("d")

\* C12: no two stored rows share an alias, and an insert under an alias
\* that is stored with another command text fails and leaves the store as
\* it was.
C12_AliasIsUnique ==
    /\ \A i, j \in 1..Len(db) : i # j => db[i].alias # db[j].alias
    /\ (/\ ret.op = "insert"
        /\ \E i \in 1..Len(was) : /\ was[i].alias = ret.alias
                                  /\ was[i].command # ret.command)
          => /\ ret.status = "StorageManagerInsertCommand"
             /\ db = was

\* C12 happens: an insert has been refused although the only row of the
\* store has another command text and another executable: they share the
\* alias alone.
C12_Witness ==
    /\ ret.op = "insert"
    /\ ret.status # "Ok"
    /\ Len(was) = 1
    /\ was[1].alias = ret.alias
    /\ was[1].command # ret.command
    /\ Some(was[1].executable) # derive_executable(ret.command)

\* C13: in the flow insert, delete, get, insert on one command text, the
\* get fails with the read error that wraps RowNotFound, and the last
\* insert, made under an alias that no stored row has, succeeds and stores
\* the text again.
C13_DeletedIsNotFoundAndInsertable ==
    /\ pc = "got" => /\ ret.status = "StorageManagerGetCommand"
                     /\ RowsOf(db, ret.command) = {}
    /\ (pc = "again" /\ \A i \in 1..Len(was) : was[i].alias # ret.alias)
          => /\ ret.status = "Ok"
             /\ db = Append(was, unwrap_val(ret.value))

\* C13 happens: a text deleted from a store that keeps another row has
\* been inserted again, after the get of it failed.
C13_Witness ==
    /\ pc = "again"
    /\ ret.status = "Ok"
    /\ Len(db) = 2
    /\ db[2].command = ret.command

\* C14: a delete returns Ok and removes the rows of its command text and
\* no other row: none when the text is not stored, exactly one when it
\* is.
C14_DeleteRemovesExactlyTheText ==
    ret.op = "delete"
        => /\ ret.status = "Ok"
           /\ db = SelectSeq(was, LAMBDA r : r.command # ret.command)
           /\ RowsOf(was, ret.command) = {} => db = was
           /\ RowsOf(was, ret.command) # {} => Len(db) = Len(was) - 1

\* C14 happens: a delete of a text that is not stored has returned on a
\* store that holds a row with the executable of the text.
C14_Witness ==
    /\ ret.op = "delete"
    /\ RowsOf(was, ret.command) = {}
    /\ \E i \in 1..Len(was) :
           Some(was[i].executable) = derive_executable(ret.command)

\* C15: get_all_commands returns Ok with exactly the commands whose insert
\* succeeded and that no delete has removed since, each once; that is the
\* empty sequence on a store nothing was inserted into.
C15_GetAllReturnsTheLiveCommands ==
    ret.op = "get_all"
        => /\ ret.status = "Ok"
           /\ {ret.value[i] : i \in 1..Len(ret.value)} = live
           /\ Len(ret.value) = Cardinality(live)
           /\ live = {} => ret.value = <<>>

\* C15 happens: get_all_commands has returned two records.
C15_Witness ==
    /\ ret.op = "get_all"
    /\ Len(ret.value) = 2

\* C19: CommandService::new on a store that exists succeeds and leaves
\* every row as it was, so that every command inserted and not deleted is
\* still stored.
C19_SetupIsIdempotent ==
    ret.op = "new"
        => /\ ret.status = "Ok"
           /\ db = was
           /\ {db[i] : i \in 1..Len(db)} = live

\* C19 happens: the service has been made again on a store that holds a
\* row.
C19_Witness ==
    /\ ret.op = "new"
    /\ was # <<>>

Conflicts(rows, record) ==
    \E i \in 1..Len(rows) :
        \/ rows[i].command = record.command
        \/ rows[i].alias = record.alias
        \/ Some(rows[i].executable) = derive_executable(record.command)

\* C17: the import attempts the records of the file in order and returns
\* only after the last one; a record in the way of a stored row is skipped
\* and the store stays as it was, any other record is stored.
C17_ImportSkipsAndGoesOn ==
    /\ pc = "returned" => pos = Len(file)
    /\ (pc \in {"for", "returned"} /\ pos > 0)
          => /\ ret.op = "insert"
             /\ ret.command = file[pos].command
             /\ ret.alias = file[pos].alias
             /\ IF Conflicts(was, file[pos])
                THEN db = was
                ELSE /\ Len(db) = Len(was) + 1
                     /\ SubSeq(db, 1, Len(was)) = was
                     /\ db[Len(db)].command = file[pos].command
                     /\ db[Len(db)].alias = file[pos].alias
                     /\ db[Len(db)].description = file[pos].description

\* C17 happens: the import has returned after a record that was skipped
\* and a later record that was stored.
C17_Witness ==
    /\ pc = "returned"
    /\ pos = 3
    /\ Len(db) = 2
    /\ db[2].command = file[3].command
    /\ db[1].command = file[1].command

----------------------------------------------------------------------------
(* Properties of the start of the terminal session (Spec) *)

\* The executables of the rows in the order in which each is first seen.
RECURSIVE first_seen(_, _)
first_seen(rows, seen) ==
    IF rows = <<>> THEN seen
    ELSE first_seen(Tail(rows),
                    IF \E i \in 1..Len(seen) : seen[i] = Head(rows).executable
                    THEN seen
                    ELSE Append(seen, Head(rows).executable))

\* C16 as claimed: the tabs of a session are the executables of the store
\* in the order in which the scan of the store first shows them.
C16_TabsInFirstSeenOrder ==
    pc \in {"draw", "read"} => titles = first_seen(db, <<>>)

\* C18 as claimed: when the database cannot be created or opened, the
\* session ends with the terminal neither in raw mode nor on the alternate
\* screen, and without a key read.
C18_FatalStartupLeavesTerminalAlone ==
    pc = "failed" => /\ ~raw
                     /\ ~alt
                     /\ key = "none"

----------------------------------------------------------------------------
(* Properties of the grouping and of the whole session (Spec) *)

\* App::new has returned the App of the session.
AppBuilt == pc \notin {"start", "new", "failed"}

\* The places of a command in the lists of the grouping.
PlacesOf(command) ==
    {place \in UNION {{k} \X (1..Len(items[k])) : k \in DOMAIN items} :
        items[place[1]][place[2]] = command}

\* App::new has just returned: nothing is drawn and no key is read yet.
AtStartup == pc = "draw" /\ key = "none"

\* C21: the grouping App::new returns is a partition of the stored
\* commands: each command is at exactly one place, in the list under its
\* own executable; the tabs are the keys of the grouping, no list is
\* empty, and each list is the commands of its executable in the order of
\* the store.
C21_GroupingIsAPartition ==
    AtStartup
        => /\ \A i \in 1..Len(db) :
                  /\ Cardinality(PlacesOf(db[i])) = 1
                  /\ \A place \in PlacesOf(db[i]) :
                         place[1] = db[i].executable
           /\ {titles[i] : i \in 1..Len(titles)} = DOMAIN items
           /\ Len(titles) = Cardinality(DOMAIN items)
           /\ \A k \in DOMAIN items :
                  /\ items[k] # <<>>
                  /\ items[k] = SelectSeq(db, LAMBDA r : r.executable = k)

\* C21 happens: the store holds two commands of one executable with a
\* command of another executable between them, and the App is built.
C21_Witness ==
    /\ AtStartup
    /\ \E i, j, k \in 1..Len(db) :
           /\ i < j
           /\ j < k
           /\ db[i].executable = db[k].executable
           /\ db[i].executable # db[j].executable

\* C22: in a session with at least one tab no key ends in a panic; the tab
\* index is below the number of tabs and names a key of the grouping, a
\* selected item index is below the length of the list of the active tab,
\* and the selected executable and the selected command are found.
C22_SelectionInRange ==
    (AppBuilt /\ titles # <<>>)
        => /\ pc # "panic"
           /\ 0 <= index
           /\ index < Len(titles)
           /\ titles[index + 1] \in DOMAIN items
           /\ is_some(selected) => /\ 0 <= unwrap_val(selected)
                                   /\ unwrap_val(selected) < Len(ActiveList)
           /\ is_some(selected_executable(titles, index))
           /\ is_some(get_selected_command(titles, index, items, selected))

\* C22 happens: on a tab that is not the first, the Up key pressed on the
\* first item of a list of several has selected the last item.
C22_Witness ==
    /\ Handled("Up")
    /\ index >= 1
    /\ before.selected = Some(0)
    /\ Len(ActiveList) >= 2
    /\ selected = Some(Len(ActiveList) - 1)

\* The session is over: run_app has returned or has panicked.
SessionOver == pc \in {"restore", "done", "panic"}

\* C23 as claimed: the session is over only after the q key or the Enter
\* key; the Enter key ends it without a panic, with the command text of
\* the selected item in the clipboard or with the clipboard as it was.
C23_EndsOnlyOnQuitOrEnter ==
    /\ SessionOver => key \in {"q", "Enter"}
    /\ key = "Enter"
          => /\ pc \in {"restore", "done"}
             /\ is_some(before.selected)
                   => clipboard \in
                          {None,
                           Some(ActiveList[unwrap_val(before.selected) + 1]
                                    .command)}

\* C24 as claimed: whenever run_terminal has returned, with Ok or with the
\* error of App::new, the terminal is in neither raw mode nor the
\* alternate screen.
C24_ReturnsWithTerminalRestored ==
    pc \in {"done", "failed"} => /\ ~raw
                                 /\ ~alt

====
